---- MODULE Spec2Model ----
(***************************************************************************)
(* Model of alarmageddon/validations/kafka.py: the two SSH validations     *)
(* KafkaStatusValidation and KafkaConsumerLagMonitor.                      *)
(*                                                                         *)
(* Text is a sequence of atoms.  The text returned by run() is a sequence  *)
(* of one-character strings, so that substring tests and regular           *)
(* expression splits are computed character by character.  In a failure    *)
(* message the constant parts of the format strings are single atoms       *)
(* (" has ", ", ", ...), the interpolated values keep their characters.    *)
(***************************************************************************)
EXTENDS Integers, Sequences, FiniteSets, TLC

VARIABLES self, host, output, pc, cls, command, parsed, tuples, assigned,
          result, first, calls

vars == <<self, host, output, pc, cls, command, parsed, tuples, assigned,
          result, first, calls>>

(***************************************************************************)
(* Bounds of the explored inputs.                                          *)
(***************************************************************************)
MaxGroups == 4
MaxRows == 2
MaxLex == 3
MaxCalls == 3

(***************************************************************************)
(* Python primitives used by the two methods.                              *)
(***************************************************************************)
Min(a, b) == IF a < b THEN a ELSE b

RECURSIVE Concat(_)
Concat(ss) == IF Len(ss) = 0 THEN <<>> ELSE Head(ss) \o Concat(Tail(ss))

\* sep.join(items)
RECURSIVE str_join(_, _)
str_join(sep, items) ==
    IF Len(items) = 0 THEN <<>>
    ELSE IF Len(items) = 1 THEN items[1]
    ELSE items[1] \o sep \o str_join(sep, Tail(items))

\* x in s, for strings
str_contains(s, x) ==
    \E i \in 1..(Len(s) - Len(x) + 1) : SubSeq(s, i, i + Len(x) - 1) = x

Digits == <<"0", "1", "2", "3", "4", "5", "6", "7", "8", "9">>

DigitSet == {Digits[i] : i \in 1..10}

\* \s of the re module, restricted to the characters of the alphabet
Whitespace == {" ", "\t", "\n", "\r"}

\* str.isdigit(): non-empty and all characters are digits
isdigit(s) == Len(s) > 0 /\ \A i \in 1..Len(s) : s[i] \in DigitSet

DigitVal(c) == (CHOOSE d \in 1..10 : Digits[d] = c) - 1

\* int(s) for a string of decimal digits
RECURSIVE int(_)
int(s) ==
    IF Len(s) = 0 THEN 0
    ELSE 10 * int(SubSeq(s, 1, Len(s) - 1)) + DigitVal(s[Len(s)])

\* "%s" % n for a non-negative integer n
RECURSIVE int_to_str(_)
int_to_str(n) ==
    IF n < 10 THEN <<Digits[n + 1]>>
    ELSE int_to_str(n \div 10) \o <<Digits[(n % 10) + 1]>>

\* the three regular expressions of the module
RE_TabNl == "\\t|\\n"
RE_TabCrLf == "\\t|\\r\\n"
RE_Spaces == "\\s\\s+"

\* length of the maximal run of whitespace starting at position i
RECURSIVE WsRun(_, _)
WsRun(s, i) ==
    IF i > Len(s) \/ s[i] \notin Whitespace THEN 0 ELSE 1 + WsRun(s, i + 1)

\* length of the match of pattern pat at position i of s, 0 if none
re_match_len(pat, s, i) ==
    CASE pat = RE_TabNl -> IF s[i] \in {"\t", "\n"} THEN 1 ELSE 0
      [] pat = RE_TabCrLf ->
            IF s[i] = "\t" THEN 1
            ELSE IF s[i] = "\r" /\ i < Len(s) /\ s[i + 1] = "\n" THEN 2
            ELSE 0
      [] pat = RE_Spaces ->
            IF WsRun(s, i) >= 2 THEN WsRun(s, i) ELSE 0

\* re.split(pat, s): scan from position i, the current field starts at from
RECURSIVE re_split_from(_, _, _, _)
re_split_from(pat, s, i, from) ==
    IF i > Len(s) THEN <<SubSeq(s, from, Len(s))>>
    ELSE LET m == re_match_len(pat, s, i)
         IN  IF m > 0
             THEN <<SubSeq(s, from, i - 1)>> \o re_split_from(pat, s, i + m, i + m)
             ELSE re_split_from(pat, s, i + 1, from)

re_split(pat, s) == re_split_from(pat, s, 1, 1)

\* [seq[i] for i in xrange(start, len(seq), step)]   (start is 0-based)
xrange_pick(seq, start, step) ==
    LET n == IF Len(seq) > start THEN ((Len(seq) - start - 1) \div step) + 1 ELSE 0
    IN  [k \in 1..n |-> seq[start + (k - 1) * step + 1]]

\* zip of two and of three lists: as long as the shortest
zip2(a, b) == [k \in 1..Min(Len(a), Len(b)) |-> <<a[k], b[k]>>]

zip3(a, b, c) ==
    [k \in 1..Min(Len(a), Min(Len(b), Len(c))) |-> <<a[k], b[k], c[k]>>]

\* the indices of a set of naturals in increasing order
RECURSIVE SortedIdx(_)
SortedIdx(S) ==
    IF S = {} THEN <<>>
    ELSE LET m == CHOOSE x \in S : \A y \in S : x <= y
         IN  <<m>> \o SortedIdx(S \ {m})

\* Counter(seq).items(): <<key, count>> for each distinct element.  The order
\* of items() is that of the dict, fixed for a given key sequence within one
\* interpreter; it is taken here as the order of first occurrence, and the
\* properties below read the message entries as a set.
Counter_items(seq) ==
    LET firsts == SortedIdx({i \in 1..Len(seq) : \A j \in 1..(i - 1) : seq[j] # seq[i]})
    IN  [k \in 1..Len(firsts) |->
            <<seq[firsts[k]],
              Cardinality({j \in 1..Len(seq) : seq[j] = seq[firsts[k]]})>>]

\* template.format(*args): the template is a sequence of pieces, a piece is
\* literal text (field = -1) or the replacement field {field}
IndexError == "IndexError"

str_format(template, args) ==
    IF \E p \in 1..Len(template) : template[p].field >= Len(args)
    THEN [exc |-> IndexError, text |-> <<>>]
    ELSE [exc |-> "",
          text |-> Concat([p \in 1..Len(template) |->
                      IF template[p].field < 0 THEN <<template[p].lit>>
                      ELSE args[template[p].field + 1]])]

\* str() of the tuple (a, b) of two strings
tuple_str(a, b) == <<"('">> \o a \o <<"', '">> \o b \o <<"')">>

(***************************************************************************)
(* Results of an invocation.                                               *)
(***************************************************************************)
Pass == [kind |-> "pass", host |-> <<>>, message |-> <<>>, exc |-> ""]

Raised(e) == [kind |-> "raise", host |-> <<>>, message |-> <<>>, exc |-> e]

\* SshValidation.fail_on_host(host, reason): reports the failure of the host
fail_on_host(h, reason) ==
    [kind |-> "fail", host |-> h, message |-> reason, exc |-> ""]

(***************************************************************************)
(* The error markers and the marker message.                               *)
(***************************************************************************)
NoSuchFile == <<"N", "o", " ", "s", "u", "c", "h", " ", "f", "i", "l", "e">>

MissingRequiredArgument ==
    <<"M", "i", "s", "s", "i", "n", "g", " ", "r", "e", "q", "u", "i", "r",
      "e", "d", " ", "a", "r", "g", "u", "m", "e", "n", "t">>

Exception == <<"E", "x", "c", "e", "p", "t", "i", "o", "n">>

error_patterns == <<NoSuchFile, MissingRequiredArgument, Exception>>

\* any(x in output for x in error_patterns)
has_error_pattern(out) ==
    \E k \in 1..Len(error_patterns) : str_contains(out, error_patterns[k])

\* "checking Kafka ... on {0} ({1})".format((host, output)): one argument
error_message(what, h, out) ==
    str_format(<<[lit |-> what, field |-> -1], [lit |-> "", field |-> 0],
                 [lit |-> " (", field |-> -1], [lit |-> "", field |-> 1],
                 [lit |-> ")", field |-> -1]>>,
               <<tuple_str(h, out)>>)

(***************************************************************************)
(* KafkaStatusValidation.perform_on_host, after the marker check.          *)
(***************************************************************************)
status_parsed(out) == re_split(RE_TabNl, out)

status_topics(p) == xrange_pick(p, 0, 5)

\* variant: the leaders are read from slot 1 of each group
status_leaders_slot1(p) == xrange_pick(p, 1, 5)

status_leaders(p) == xrange_pick(p, 2, 5)

status_tuples(p) == zip2(status_topics(p), status_leaders(p))

\* variant: a pair is reported only from its third occurrence on
status_duplicates_over2(tus) ==
    LET items == Counter_items(tus)
        keep  == SelectSeq(items, LAMBDA it : it[2] > 2)
    IN  [k \in 1..Len(keep) |-> keep[k][1]]

status_duplicates(tus) ==
    LET items == Counter_items(tus)
        keep  == SelectSeq(items, LAMBDA it : it[2] > 1)
    IN  [k \in 1..Len(keep) |-> keep[k][1]]

status_message(dups) ==
    <<"Kafka partitions are out of sync. Multiple leaders for the same partition for the same replica: ">>
    \o str_join(<<", ">>, [k \in 1..Len(dups) |-> dups[k][1] \o <<" has ">> \o dups[k][2]])

status_result(h, tus) ==
    LET duplicates == status_duplicates(tus)
    IN  IF Len(duplicates) # 0 THEN fail_on_host(h, status_message(duplicates))
        ELSE Pass

(***************************************************************************)
(* KafkaConsumerLagMonitor.perform_on_host, after the marker check.        *)
(***************************************************************************)
Topic == <<"T", "o", "p", "i", "c">>

LagThreshold == 5

lag_parsed(out) ==
    LET lines == re_split(RE_TabCrLf, out)
        rows  == [k \in 1..Len(lines) |-> re_split(RE_Spaces, lines[k])]
    IN  SelectSeq(rows, LAMBDA r : Len(r) > 2)

lag_topics(p) ==
    LET keep == SelectSeq(p, LAMBDA item : item[2] # Topic)
    IN  [k \in 1..Len(keep) |-> keep[k][2]]

lag_pids(p) ==
    LET keep == SelectSeq(p, LAMBDA item : isdigit(item[3]))
    IN  [k \in 1..Len(keep) |-> keep[k][3]]

\* item[5] raises IndexError on a row of fewer than 6 fields
lag_lags_raises(p) == \E k \in 1..Len(p) : Len(p[k]) < 6

lag_lags(p) ==
    LET keep == SelectSeq(p, LAMBDA item : isdigit(item[6]))
    IN  [k \in 1..Len(keep) |-> int(keep[k][6])]

lag_tuples(p) == zip3(lag_topics(p), lag_pids(p), lag_lags(p))

\* variant: a lag equal to the threshold is reported too
lag_laggers_from5(tus) == SelectSeq(tus, LAMBDA t : t[3] >= LagThreshold)

lag_laggers(tus) == SelectSeq(tus, LAMBDA t : t[3] > LagThreshold)

lag_item(t) ==
    t[1] \o <<" on PID ">> \o t[2] \o <<" is lagging by ">> \o int_to_str(t[3])
         \o <<" messages.">>

lag_message(laggers) ==
    <<"Kafka consumers are lagging on topic ">>
    \o str_join(<<", ">>, [k \in 1..Len(laggers) |-> lag_item(laggers[k])])

lag_result(h, tus) ==
    LET laggers == lag_laggers(tus)
    IN  IF Len(laggers) # 0 THEN fail_on_host(h, lag_message(laggers))
        ELSE Pass

(***************************************************************************)
(* The texts run() may return.  Three families: listings of the topic      *)
(* tool (groups of 5 fields, tab between the fields of a group, newline    *)
(* between groups), tables of the offset checker (fields two blanks apart, *)
(* one row separator per table) and short raw texts over a set of lexemes  *)
(* that contains the delimiters and the pieces of the error markers.       *)
(***************************************************************************)
Hosts == {<<"h", "1">>, <<"h", "2">>}

SeqsUpTo(S, n) == UNION {[1..k -> S] : k \in 0..n}

StatusGroups ==
    { <<<<"a">>, <<"x">>, <<"1">>, <<"x">>, <<"x">>>>,
      <<<<"a">>, <<"2">>, <<"1">>, <<"b">>, <<"a">>>>,
      <<<<"a">>, <<"x">>, <<"2">>, <<"x">>, <<"x">>>>,
      <<<<"b">>, <<"x">>, <<"1">>, <<"x">>, <<"x">>>> }

StatusTrailing ==
    { <<>>, <<<<>>>>, <<<<"a">>>>, <<<<"a">>, <<"x">>>>,
      <<<<"a">>, <<"x">>, <<"1">>>>,
      <<<<"b">>, <<"x">>, <<"1">>, <<"x">>>>,
      <<<<"a">>, <<"x">>, <<"1">>, Exception>> }

StatusText(groups, trailing) ==
    LET toks == Concat(groups) \o trailing
    IN  Concat([j \in 1..Len(toks) |->
                  toks[j] \o (IF j = Len(toks) THEN <<>>
                              ELSE IF j % 5 = 0 THEN <<"\n">> ELSE <<"\t">>)])

StatusOutputs ==
    {StatusText(g, t) : g \in SeqsUpTo(StatusGroups, MaxGroups), t \in StatusTrailing}

LagRows ==
    { <<<<"g">>, topic, pid, <<"o">>, <<"s">>, lag>> :
        topic \in {Topic, <<"t">>},
        pid \in {<<"1">>, <<"2">>, <<"P", "i", "d">>},
        lag \in {<<"5">>, <<"6">>, <<"L", "a", "g">>} }
    \cup
    { <<<<"-">>>>,
      <<<<"g">>, <<"t">>>>,
      <<<<"G", "r", "o", "u", "p">>, Topic, <<"P", "i", "d">>>>,
      <<<<"g">>, <<"t">>, <<"1">>, <<"o">>, <<"s">>>>,
      <<<<"g">>, <<"t">>, <<"1", "2">>, <<"o">>, <<"s">>, <<"0", "1", "0">>, <<"o", "w", "n">>>>,
      <<<<"g">>, <<"t">>, <<"1">>, <<"o">>, <<"s">>, <<"6">>, Exception>> }

RowSeparators == {<<"\r", "\n">>, <<"\t">>, <<"\n">>}

LagText(rows, sep) ==
    str_join(sep, [k \in 1..Len(rows) |-> str_join(<<" ", " ">>, rows[k])])

LagOutputs ==
    {LagText(r, s) : r \in SeqsUpTo(LagRows, MaxRows), s \in RowSeparators}

Lexemes ==
    { <<"\t">>, <<"\n">>, <<"\r">>, <<" ">>, <<"a">>, <<"7">>,
      <<"E", "x", "c", "e", "p">>, <<"t", "i", "o", "n">>,
      <<"e", "x", "c", "e", "p", "t", "i", "o", "n">>,
      NoSuchFile, MissingRequiredArgument }

RawOutputs == {Concat(l) : l \in SeqsUpTo(Lexemes, MaxLex)}

Outputs == StatusOutputs \cup LagOutputs \cup RawOutputs

\* the inputs of the repeated invocations
RepeatOutputs ==
    { <<>>,
      <<"a", "\t", "x", "\t", "1", "\n", "a", "\t", "x", "\t", "1">>,
      <<"a", "\t", "x", "\t", "1", "\n", "b", "\t", "x", "\t", "1">>,
      <<"g", " ", " ", "t", " ", " ", "1", " ", " ", "o", " ", " ", "s", " ", " ", "6">>,
      <<"g", " ", " ", "t", " ", " ", "1", " ", " ", "o", " ", " ", "s", " ", " ", "5">>,
      <<"g", " ", " ", "t", " ", " ", "1">>,
      Exception }

(***************************************************************************)
(* State.  self holds the fields set by the two constructors; host and     *)
(* output are the argument of the invocation and the text run() returns;   *)
(* parsed and tuples are the locals of that name, assigned names the       *)
(* locals the invocation has assigned; result is how the invocation ended. *)
(* first remembers the first completed invocation, calls counts them.      *)
(***************************************************************************)
ZookeeperNodes == "host1:2181,host2:2181,host3:2181"

KafkaStatusValidation_init ==
    [kafka_list_topic_command |-> "/opt/kafka/bin/kafka-list-topic.sh",
     zookeeper_nodes |-> ZookeeperNodes]

KafkaConsumerLagMonitor_init == [zookeeper_nodes |-> ZookeeperNodes]

Constructed ==
    [status |-> KafkaStatusValidation_init, lag |-> KafkaConsumerLagMonitor_init]

NoFirst ==
    [set |-> FALSE, cls |-> "none", host |-> <<>>, output |-> <<>>,
     parsed |-> <<>>, tuples |-> <<>>, result |-> Pass]

InitWith(outs) ==
    /\ self = Constructed
    /\ host \in Hosts
    /\ output \in outs
    /\ pc = "ready"
    /\ cls = "none"
    /\ command = <<>>
    /\ parsed = <<>>
    /\ tuples = <<>>
    /\ assigned = {}
    /\ result = Pass
    /\ first = NoFirst
    /\ calls = 0

Init == InitWith(Outputs)

InitRepeat == InitWith(RepeatOutputs)

\* variant: the records are kept on the object and grow from call to call
KafkaStatusValidation_perform_on_host_keeps_tuples ==
    /\ pc = "ready"
    /\ pc' = "done"
    /\ cls' = "status"
    /\ command' = <<self.status.kafka_list_topic_command, " --zookeeper ",
                    self.status.zookeeper_nodes>>
    /\ IF has_error_pattern(output)
       THEN LET msg == error_message("An exception occurred while checking Kafka cluster health on ",
                                     host, output)
            IN  /\ result' = IF msg.exc # "" THEN Raised(msg.exc)
                             ELSE fail_on_host(host, msg.text)
                /\ parsed' = <<>>
                /\ tuples' = <<>>
                /\ assigned' = {}
       ELSE /\ parsed' = status_parsed(output)
            /\ tuples' = tuples \o status_tuples(parsed')
            /\ assigned' = {"parsed", "topics", "leaders", "tuples", "duplicates"}
            /\ result' = status_result(host, tuples')
    /\ UNCHANGED <<self, host, output>>

KafkaStatusValidation_perform_on_host ==
    /\ pc = "ready"
    /\ pc' = "done"
    /\ cls' = "status"
    /\ command' = <<self.status.kafka_list_topic_command, " --zookeeper ",
                    self.status.zookeeper_nodes>>
    /\ IF has_error_pattern(output)
       THEN LET msg == error_message("An exception occurred while checking Kafka cluster health on ",
                                     host, output)
            IN  /\ result' = IF msg.exc # "" THEN Raised(msg.exc)
                             ELSE fail_on_host(host, msg.text)
                /\ parsed' = <<>>
                /\ tuples' = <<>>
                /\ assigned' = {}
       ELSE /\ parsed' = status_parsed(output)
            /\ tuples' = status_tuples(parsed')
            /\ assigned' = {"parsed", "topics", "leaders", "tuples", "duplicates"}
            /\ result' = status_result(host, tuples')
    /\ UNCHANGED <<self, host, output>>

KafkaConsumerLagMonitor_perform_on_host ==
    /\ pc = "ready"
    /\ pc' = "done"
    /\ cls' = "lag"
    /\ command' = <<"/usr/local/kafka/bin/kafka-run-class.sh kafka.tools.ConsumerOffsetChecker --group find_delivery",
                    " --zkconnect ", self.lag.zookeeper_nodes>>
    /\ IF has_error_pattern(output)
       THEN LET msg == error_message("An exception occurred while checking Kafka consumer lag on ",
                                     host, output)
            IN  /\ result' = IF msg.exc # "" THEN Raised(msg.exc)
                             ELSE fail_on_host(host, msg.text)
                /\ parsed' = <<>>
                /\ tuples' = <<>>
                /\ assigned' = {}
       ELSE /\ parsed' = lag_parsed(output)
            /\ IF lag_lags_raises(parsed')
               THEN /\ tuples' = <<>>
                    /\ assigned' = {"parsed", "topics", "pids"}
                    /\ result' = Raised(IndexError)
               ELSE /\ tuples' = lag_tuples(parsed')
                    /\ assigned' = {"parsed", "topics", "pids", "lags", "tuples", "laggers"}
                    /\ result' = lag_result(host, tuples')
    /\ UNCHANGED <<self, host, output>>

\* the framework's next call of perform_on_host: another host, another text
NextCall ==
    /\ pc = "done"
    /\ calls < MaxCalls
    /\ pc' = "ready"
    /\ host' \in Hosts
    /\ output' \in RepeatOutputs
    /\ UNCHANGED <<self, cls, command, parsed, tuples, assigned, result, first, calls>>

\* bookkeeping of the completed invocations
Remember ==
    /\ calls' = calls + 1
    /\ first' = IF first.set THEN first
                ELSE [set |-> TRUE, cls |-> cls', host |-> host', output |-> output',
                      parsed |-> parsed', tuples |-> tuples', result |-> result']

Next ==
    \/ KafkaStatusValidation_perform_on_host /\ UNCHANGED <<first, calls>>
    \/ KafkaConsumerLagMonitor_perform_on_host /\ UNCHANGED <<first, calls>>

NextRepeat ==
    \/ KafkaStatusValidation_perform_on_host /\ Remember
    \/ KafkaConsumerLagMonitor_perform_on_host /\ Remember
    \/ NextCall

Spec == Init /\ [][Next]_vars

SpecRepeat == InitRepeat /\ [][NextRepeat]_vars

(***************************************************************************)
(* Vocabulary of the properties.                                           *)
(***************************************************************************)
Done(c) == pc = "done" /\ cls = c

MarkerFree == ~has_error_pattern(output)

\* number of records equal to p
Occurrences(p) == Cardinality({i \in 1..Len(tuples) : tuples[i] = p})

DuplicatedPairs == {tuples[i] : i \in {j \in 1..Len(tuples) : Occurrences(tuples[j]) > 1}}

\* the entries of a failure message: what follows the heading, cut at ", "
RECURSIVE ItemsFrom(_, _, _)
ItemsFrom(s, i, from) ==
    IF i > Len(s) THEN <<SubSeq(s, from, Len(s))>>
    ELSE IF s[i] = ", " THEN <<SubSeq(s, from, i - 1)>> \o ItemsFrom(s, i + 1, i + 1)
    ELSE ItemsFrom(s, i + 1, from)

MessageItems == IF Len(result.message) = 0 THEN <<>> ELSE ItemsFrom(Tail(result.message), 1, 1)

ItemSet == {MessageItems[i] : i \in 1..Len(MessageItems)}

RemoveAt(seq, i) == SubSeq(seq, 1, i - 1) \o SubSeq(seq, i + 1, Len(seq))

\* C1: an output with an error marker ends in a failure reported through
\* fail_on_host whose message contains the host and the raw output, and
\* nothing is tokenized, counted or evaluated.
C1_MarkerReportsFailure ==
    (pc = "done" /\ has_error_pattern(output)) =>
        /\ result.kind = "fail"
        /\ result.host = host
        /\ str_contains(result.message, host)
        /\ str_contains(result.message, output)
        /\ assigned = {}

\* C2: on a marker-free output the lag monitor never raises; it ends in a
\* pass or in a reported failure.
C2_ExtractionNeverRaises ==
    (Done("lag") /\ MarkerFree) => result.kind \in {"pass", "fail"}

\* C3: on a marker-free output the status validation fails if and only if
\* some (topic, leader) pair occurs more than once among the records; without
\* a duplicate it passes, and a failure message names every duplicated pair.
C3_FailIffDuplicate ==
    (Done("status") /\ MarkerFree) =>
        /\ result.kind = "fail" <=> DuplicatedPairs # {}
        /\ DuplicatedPairs = {} => result = Pass
        /\ result.kind = "fail" =>
              /\ result.host = host
              /\ \A p \in DuplicatedPairs : (p[1] \o <<" has ">> \o p[2]) \in ItemSet

C3_Witness ==
    /\ Done("status") /\ MarkerFree
    /\ result.kind = "fail"
    /\ Cardinality(DuplicatedPairs) >= 2
    /\ \E i \in 1..Len(tuples) : Occurrences(tuples[i]) = 1

\* the triples of the rows that pass all three filters, in row order
RowTriples(rows) ==
    LET ok == SelectSeq(rows, LAMBDA r : r[2] # Topic /\ isdigit(r[3]) /\ isdigit(r[6]))
    IN  [k \in 1..Len(ok) |-> <<ok[k][2], ok[k][3], int(ok[k][6])>>]

\* C4: every triple takes topic, pid and lag from one and the same row: the
\* triples are, in row order, those of exactly the rows that pass all three
\* filters.
C4_TriplesFromOneRow ==
    (Done("lag") /\ MarkerFree /\ result.kind # "raise") => tuples = RowTriples(parsed)

\* C5: a row whose topic field is 'Topic' contributes nothing: the result is
\* the result of the same rows without it.
C5_TopicRowIgnored ==
    (Done("lag") /\ MarkerFree /\ result.kind # "raise") =>
        \A i \in 1..Len(parsed) :
            parsed[i][2] = Topic =>
                result = lag_result(host, lag_tuples(RemoveAt(parsed, i)))

\* the entry of the lag message for a triple
LagListed(t) ==
    t[1] \o <<" on PID ">> \o t[2] \o <<" is lagging by ">> \o int_to_str(t[3])
         \o <<" messages.">>

\* C6: when extraction completes on a marker-free output, the lag monitor
\* fails if and only if some triple has lag > 5; the message lists exactly
\* the triples with lag > 5; with all lags <= 5 there is no fail_on_host call.
C6_FailIffLagAboveFive ==
    (Done("lag") /\ MarkerFree /\ result.kind # "raise") =>
        /\ result.kind = "fail" <=> \E i \in 1..Len(tuples) : tuples[i][3] > 5
        /\ (\A i \in 1..Len(tuples) : tuples[i][3] <= 5) => result = Pass
        /\ result.kind = "fail" =>
              /\ result.host = host
              /\ \A i \in 1..Len(tuples) :
                    tuples[i][3] > 5 <=> LagListed(tuples[i]) \in ItemSet
              /\ \A it \in ItemSet : \E i \in 1..Len(tuples) : it = LagListed(tuples[i])

C6_Witness ==
    /\ Done("lag") /\ MarkerFree
    /\ result.kind = "fail"
    /\ \E i \in 1..Len(tuples) : tuples[i][3] = 6
    /\ \E i \in 1..Len(tuples) : tuples[i][3] = 5

\* C7: the duplicate-leadership message enumerates each duplicated pair
\* exactly once and states its occurrence count.
C7_CountStated ==
    (Done("status") /\ MarkerFree /\ result.kind = "fail") =>
        \A p \in DuplicatedPairs :
            /\ Cardinality({i \in 1..Len(MessageItems) :
                              /\ str_contains(MessageItems[i], p[1])
                              /\ str_contains(MessageItems[i], p[2])}) = 1
            /\ \E i \in 1..Len(MessageItems) :
                  /\ str_contains(MessageItems[i], p[1])
                  /\ str_contains(MessageItems[i], p[2])
                  /\ str_contains(MessageItems[i], int_to_str(Occurrences(p)))

\* C8: in both checkers a marker-free output from which no record is parsed
\* ends in a pass: no exception and no fail_on_host call.
C8_ZeroRecordsPass ==
    (pc = "done" /\ MarkerFree /\ Len(tuples) = 0) => result = Pass

\* C9: the outcome is a function of the checker, the host and the output:
\* an invocation with the inputs of the first one has its records and its
\* result, whatever was invoked in between, and no invocation changes the
\* state of the validation objects.
C9_SameInputSameOutcome ==
    /\ self = Constructed
    /\ (pc = "done" /\ first.set /\ cls = first.cls /\ host = first.host
            /\ output = first.output) =>
          (parsed = first.parsed /\ tuples = first.tuples /\ result = first.result)

C9_Witness ==
    /\ pc = "done" /\ calls >= 3
    /\ cls = first.cls /\ host = first.host /\ output = first.output
    /\ result.kind = "fail"

====
